---- MODULE Spec2Model ----
(***************************************************************************)
(* Model of the user controller of the Express boilerplate: registerUser,  *)
(* loginUser, logoutUser, refreshAccessToken, the token helper             *)
(* generateAccessAndRefreshTokens, the upload helper uploadOnCloudnary and  *)
(* the authentication guard authMiddleware.  One action handles one        *)
(* request from its arrival to its response.                               *)
(*                                                                         *)
(* JavaScript values: a body field is a record [def, s]; def = FALSE is    *)
(* `undefined` and s is the string as a sequence of one-character strings. *)
(* A token is a record [kind, sub, iat]: the signed claim set of a JWT,    *)
(* where kind tells the secret it was signed with.                         *)
(***************************************************************************)
EXTENDS Integers, Sequences, FiniteSets, TLC

\* ------------------------------------------------------------------ bounds
MaxUsers == 2
MaxTime == 1
\* the number of calls of a wrapped handler that are followed
MaxCalls == 2

\* Token lifetimes in clock ticks (ACCESS_TOKEN_EXPIRY, REFRESH_TOKEN_EXPIRY
\* of the environment): the access token is the short-lived one, and it
\* outlives a second, so that a later login can replace the pair while the
\* earlier access token is still valid.
AccessTTL == 2
RefreshTTL == 3

VARIABLES
    users,    \* the User collection, in insertion order; _id = position
    now,      \* the clock, in the seconds jwt stamps on tokens (iat)
    superseded, \* the refresh token replaced or cleared last (clients keep it)
    req,      \* the request handled last
    resp,     \* the response to it
    ah,       \* asyncHandler: the call in progress and the calls finished
    up,       \* uploadOnCloudnary: the call in progress and the local disk
    cc        \* the requests in flight when handlers interleave at awaits

vars == <<users, now, superseded, req, resp, ah, up, cc>>
handlerVars == <<users, now, superseded, req, resp>>

\* ------------------------------------------------------------ JS values
Undef == [def |-> FALSE, s |-> <<>>]
Str(s) == [def |-> TRUE, s |-> s]

IsSpace(c) == c = " "

RECURSIVE TrimStart(_)
TrimStart(s) ==
    IF s # <<>> /\ IsSpace(Head(s)) THEN TrimStart(Tail(s)) ELSE s

RECURSIVE TrimEnd(_)
TrimEnd(s) ==
    IF s # <<>> /\ IsSpace(s[Len(s)]) THEN TrimEnd(SubSeq(s, 1, Len(s) - 1)) ELSE s

\* String.prototype.trim
Trim(s) == TrimEnd(TrimStart(s))

LowerChar(c) ==
    CASE c = "A" -> "a"
      [] c = "B" -> "b"
      [] c = "N" -> "n"
      [] OTHER -> c

\* String.prototype.toLowerCase
ToLowerCase(s) == [i \in 1..Len(s) |-> LowerChar(s[i])]

\* JS truthiness of a body field: undefined and "" are falsy
Truthy(f) == f.def /\ f.s # <<>>

\* --------------------------------------------------------------- tokens
NoToken == [kind |-> "none", sub |-> 0, iat |-> 0]
UndefinedToken == [kind |-> "undefined", sub |-> 0, iat |-> 0]
ForgedToken == [kind |-> "forged", sub |-> 1, iat |-> 0]

\* user.generateAccessToken(): jwt.sign({_id}, ACCESS_TOKEN_SECRET, expiresIn)
generateAccessToken(u, t) == [kind |-> "access", sub |-> u._id, iat |-> t]

\* user.generateRefreshToken(): jwt.sign({_id}, REFRESH_TOKEN_SECRET, expiresIn)
generateRefreshToken(u, t) == [kind |-> "refresh", sub |-> u._id, iat |-> t]

\* jwt.verify(token, secret): the signature is the secret's and now < exp
JwtVerify(tok, secretKind, ttl, t) ==
    /\ tok.kind = secretKind
    /\ t < tok.iat + ttl

\* ---------------------------------------------------------- persistence
\* bcrypt hash of the pre-save hook, and the one-way comparison
Hash(pw) == <<"bcrypt">> \o pw

isPasswordCorrrect(u, pw) == pw.def /\ Hash(pw.s) = u.password

\* User.findById
HasId(us, id) == id \in 1..Len(us)

\* User.findOne({$or: [{username}, {email}]}): first match in natural order
Matches(u, username, email) == u.username = username \/ u.email = email

FindOneIdx(us, username, email) ==
    IF \E i \in 1..Len(us) : Matches(us[i], username, email)
    THEN CHOOSE i \in 1..Len(us) :
            /\ Matches(us[i], username, email)
            /\ \A j \in 1..(i - 1) : ~Matches(us[j], username, email)
    ELSE 0

\* .select("-password -refreshToken")
Sanitize(u) == [f \in DOMAIN u \ {"password", "refreshToken"} |-> u[f]]

\* the unique indexes on username and email
UniqueViolation(us, doc) ==
    \E i \in 1..Len(us) : us[i].username = doc.username \/ us[i].email = doc.email

\* the schema's required fields
SchemaRejects(doc) == ~doc.password.def \/ ~doc.fullName.def \/ ~doc.email.def

NewUser(us, doc) ==
    [_id |-> Len(us) + 1,
     username |-> doc.username,
     email |-> doc.email,
     fullName |-> doc.fullName,
     password |-> Hash(doc.password.s),
     avatar |-> doc.avatar,
     coverImage |-> doc.coverImage,
     refreshToken |-> NoToken]

\* ------------------------------------------------------------ responses
NoData == [none |-> TRUE]

BaseResp(op) ==
    [op |-> op, status |-> 0, apiError |-> FALSE, code |-> 0, msg |-> "",
     cookieAccess |-> NoToken, cookieRefresh |-> NoToken, cookiesCleared |-> FALSE,
     bodyAccess |-> NoToken, bodyRefresh |-> NoToken, data |-> NoData]

\* throw new ApiError(statusCode, message), rendered by the error reporter
ApiError(op, statusCode, message) ==
    [BaseResp(op) EXCEPT !.status = statusCode, !.apiError = TRUE,
                         !.code = statusCode, !.msg = message]

\* an error that is no ApiError (TypeError, a database error), forwarded to
\* the error reporter, which answers 500
Unstructured(op, name) ==
    [BaseResp(op) EXCEPT !.status = 500, !.msg = name]

\* --------------------------------------------------------------- upload
NoUpload == [ok |-> FALSE, url |-> ""]

\* uploadOnCloudnary(localFilePath): null without a path; the response of
\* the remote upload, or undefined when the remote upload fails
uploadOnCloudnary(hasPath, remoteOk, url) ==
    IF ~hasPath THEN NoUpload
    ELSE IF remoteOk THEN [ok |-> TRUE, url |-> url]
    ELSE NoUpload

\* ------------------------------------------------------------- register
\* req.files as multer leaves it: undefined when the request is not
\* multipart, else an object holding the arrays of the fields uploaded
NoFiles == [def |-> FALSE, avatar |-> FALSE, coverImage |-> FALSE]

FieldsOf(r) == <<r.fullName, r.email, r.username, r.password>>

\* [fullName, email, username, password].some(f => f?.trim() === "")
SomeFieldEmpty(r) ==
    \E i \in 1..4 : FieldsOf(r)[i].def /\ Trim(FieldsOf(r)[i].s) = <<>>

\* lines 60-99: the handler from the files to the response, once the lookup
\* has found no record
registerAfterLookup(r, us) ==
    IF r.files.def /\ ~r.files.avatar
    THEN \* req.files?.avatar[0]: req.files.avatar is undefined
         [users |-> us, resp |-> Unstructured("register", "TypeError")]
    ELSE IF r.files.def /\ r.files.coverImage
    THEN \* req.coverImage.length: req.coverImage is undefined
         [users |-> us, resp |-> Unstructured("register", "TypeError")]
    ELSE IF ~(r.files.def /\ r.files.avatar)
    THEN [users |-> us, resp |-> ApiError("register", 400, "Avatar file is required")]
    ELSE LET avatar == uploadOnCloudnary(TRUE, r.avatarUploadOk, "avatar-url")
             coverImage == uploadOnCloudnary(FALSE, FALSE, "cover-url")
         IN IF ~avatar.ok
            THEN [users |-> us, resp |-> ApiError("register", 400, "Avatar is required")]
            ELSE IF ~r.username.def
            THEN \* username.toLowerCase() on undefined
                 [users |-> us, resp |-> Unstructured("register", "TypeError")]
            ELSE LET doc == [fullName |-> r.fullName,
                             avatar |-> avatar.url,
                             coverImage |-> IF coverImage.ok THEN coverImage.url ELSE "",
                             email |-> r.email,
                             password |-> r.password,
                             username |-> Str(ToLowerCase(r.username.s))]
                 IN IF SchemaRejects(doc)
                    THEN [users |-> us,
                          resp |-> Unstructured("register", "ValidationError")]
                    ELSE IF UniqueViolation(us, doc)
                    THEN [users |-> us,
                          resp |-> Unstructured("register", "MongoServerError E11000")]
                    ELSE [users |-> Append(us, NewUser(us, doc)),
                          resp |-> [BaseResp("register") EXCEPT
                                       !.status = 201, !.code = 200,
                                       !.msg = "User registered sucessfully",
                                       !.data = Sanitize(NewUser(us, doc))]]

UserExists(op) == ApiError(op, 409, "User with email or username already exists")

registerUser(r, us) ==
    IF SomeFieldEmpty(r)
    THEN [users |-> us, resp |-> ApiError("register", 400, "All fields are required")]
    ELSE IF FindOneIdx(us, r.username, r.email) # 0
    THEN [users |-> us, resp |-> UserExists("register")]
    ELSE registerAfterLookup(r, us)

\* ----------------------------------------------------------------- tokens
\* the helper without its user.save(): the pair is minted and returned but
\* the refresh token never reaches the record
generateTokensWithoutSave(us, id, t) ==
    IF ~HasId(us, id)
    THEN [ok |-> FALSE, users |-> us, accessToken |-> NoToken, refreshToken |-> NoToken]
    ELSE [ok |-> TRUE, users |-> us,
          accessToken |-> generateAccessToken(us[id], t),
          refreshToken |-> generateRefreshToken(us[id], t)]

\* generateAccessAndRefreshTokens(userId): mints the pair and saves the
\* refresh token on the record; any failure inside becomes ApiError 500
generateAccessAndRefreshTokens(us, id, t) ==
    IF ~HasId(us, id)
    THEN [ok |-> FALSE, users |-> us, accessToken |-> NoToken, refreshToken |-> NoToken]
    ELSE LET accessToken == generateAccessToken(us[id], t)
             refreshToken == generateRefreshToken(us[id], t)
         IN [ok |-> TRUE,
             users |-> [us EXCEPT ![id].refreshToken = refreshToken],
             accessToken |-> accessToken,
             refreshToken |-> refreshToken]

GenerateFailed(op) ==
    ApiError(op, 500, "Something went wromg while generating access and refresh tokens")

\* ------------------------------------------------------------------ login
\* the password test with its condition inverted: if (isPasswordValid) throw
InvalidCredentialsInverted(u, pw) == isPasswordCorrrect(u, pw)

\* const isPasswordValid = await user.isPasswordCorrrect(password);
\* if (!isPasswordValid) throw
InvalidCredentials(u, pw) == ~isPasswordCorrrect(u, pw)

\* the test written with || : a request must carry both identifiers
IdentifierMissingEither(r) == ~Truthy(r.username) \/ ~Truthy(r.email)

\* if (!username && !email) throw
IdentifierMissing(r) == ~Truthy(r.username) /\ ~Truthy(r.email)

loginUser(r, us, t) ==
    IF IdentifierMissing(r)
    THEN [users |-> us, resp |-> ApiError("login", 400, "Username or email is required")]
    ELSE LET i == FindOneIdx(us, r.username, r.email)
         IN IF i = 0
            THEN [users |-> us, resp |-> ApiError("login", 404, "User not exist")]
            ELSE IF InvalidCredentials(us[i], r.password)
            THEN [users |-> us, resp |-> ApiError("login", 401, "Invalid user credentials")]
            ELSE LET g == generateAccessAndRefreshTokens(us, us[i]._id, t)
                 IN IF ~g.ok
                    THEN [users |-> us, resp |-> GenerateFailed("login")]
                    ELSE [users |-> g.users,
                          resp |-> [BaseResp("login") EXCEPT
                                       !.status = 200, !.code = 200,
                                       !.msg = "User logged in succesfully",
                                       !.cookieAccess = g.accessToken,
                                       !.cookieRefresh = g.refreshToken,
                                       !.bodyAccess = g.accessToken,
                                       !.bodyRefresh = g.refreshToken,
                                       !.data = Sanitize(g.users[i])]]

\* ------------------------------------------------------------------ guard
\* a guard that also looks the principal up and wants a session on the
\* record: a token is refused once the stored refresh token is cleared or
\* belongs to a later pair
authMiddlewareWithSession(r, t) ==
    LET token == r.headerToken
    IN IF token.kind = "none"
       THEN [pass |-> FALSE, status |-> 401, msg |-> "Unauthorized", principal |-> 0]
       ELSE IF \/ ~JwtVerify(token, "access", AccessTTL, t)
               \/ ~HasId(users, token.sub)
               \/ users[token.sub].refreshToken # [token EXCEPT !.kind = "refresh"]
       THEN [pass |-> FALSE, status |-> 403, msg |-> "Forbidden", principal |-> 0]
       ELSE [pass |-> TRUE, status |-> 0, msg |-> "", principal |-> token.sub]

\* authMiddleware: the bearer token of the Authorization header
\* (req.headers.authorization?.split(" ")[1]), verified with the access
\* secret; the accessToken cookie is not read
authMiddleware(r, t) ==
    LET token == r.headerToken
    IN IF token.kind = "none"
       THEN [pass |-> FALSE, status |-> 401, msg |-> "Unauthorized", principal |-> 0]
       ELSE IF ~JwtVerify(token, "access", AccessTTL, t)
       THEN [pass |-> FALSE, status |-> 403, msg |-> "Forbidden", principal |-> 0]
       ELSE [pass |-> TRUE, status |-> 0, msg |-> "", principal |-> token.sub]

\* ----------------------------------------------------------------- logout
\* User.findByIdAndUpdate(id, {$set: {refreshToken: undefined}}): what an
\* undefined value in $set does depends on the Mongoose release installed.
\* Mongoose 5 stores null (the field is cleared); Mongoose 6 and later drop
\* undefined keys from an update (the record is left as it is).  Both
\* outcomes are taken.
\* the update without its filter on the id: every record is updated
ClearEveryRefreshToken(us, id, keyDropped) ==
    IF keyDropped THEN us
    ELSE [i \in 1..Len(us) |-> [us[i] EXCEPT !.refreshToken = NoToken]]

SetRefreshTokenUndefined(us, id, keyDropped) ==
    IF ~HasId(us, id) \/ keyDropped THEN us
    ELSE [us EXCEPT ![id].refreshToken = NoToken]

logoutUser(us, principal, keyDropped) ==
    [users |-> SetRefreshTokenUndefined(us, principal, keyDropped),
     resp |-> [BaseResp("logout") EXCEPT
                  !.status = 200, !.code = 200, !.msg = "User logged out",
                  !.cookiesCleared = TRUE]]

\* router.route("/logout").post(verifyJWT, logoutUser): the guard runs first
\* and logoutUser only when it calls next(); the guard is authMiddleware,
\* the one guard whose code the repository shows
logoutRoute(r, us, t, keyDropped) ==
    LET g == authMiddleware(r, t)
    IN IF ~g.pass
       THEN [users |-> us, principal |-> 0, nextCalls |-> 0,
             resp |-> ApiError("logout", g.status, g.msg)]
       ELSE [users |-> logoutUser(us, g.principal, keyDropped).users,
             principal |-> g.principal, nextCalls |-> 1,
             resp |-> logoutUser(us, g.principal, keyDropped).resp]

\* ---------------------------------------------------------------- refresh
\* req.cookies.refreshToken || req.body.refreshToken
IncomingRefreshToken(r) ==
    IF r.cookieToken.kind # "none" THEN r.cookieToken ELSE r.bodyToken

\* the body of the try block; every throw inside it is caught and
\* re-thrown as ApiError(401, error.message)
RefreshTry(incoming, us, t) ==
    IF ~JwtVerify(incoming, "refresh", RefreshTTL, t)
    THEN [users |-> us, resp |-> ApiError("refresh", 401, "jwt error")]
    ELSE IF ~HasId(us, incoming.sub)
    THEN [users |-> us, resp |-> ApiError("refresh", 401, "Invalid refresh token")]
    ELSE IF incoming # us[incoming.sub].refreshToken
    THEN [users |-> us, resp |-> ApiError("refresh", 401, "Refresh token is expired or used")]
    ELSE LET g == generateAccessAndRefreshTokens(us, incoming.sub, t)
         IN \* const { accessToken, newrefreshToken } = ...: the helper
            \* returns no newrefreshToken key, so newrefreshToken is undefined
            [users |-> g.users,
             resp |-> [BaseResp("refresh") EXCEPT
                          !.status = 200, !.code = 200,
                          !.msg = "Access token refreshed",
                          !.cookieAccess = g.accessToken,
                          !.cookieRefresh = UndefinedToken,
                          !.bodyAccess = g.accessToken,
                          !.bodyRefresh = UndefinedToken]]

\* the handler rejecting an absent token and otherwise trusting the
\* signature alone: the comparison with the stored token is left out
refreshWithoutStoredCheck(r, us, t) ==
    LET incoming == IncomingRefreshToken(r)
    IN IF incoming.kind = "none"
       THEN [users |-> us, resp |-> ApiError("refresh", 401, "Unauthorized request")]
       ELSE IF ~JwtVerify(incoming, "refresh", RefreshTTL, t) \/ ~HasId(us, incoming.sub)
       THEN [users |-> us, resp |-> ApiError("refresh", 401, "Invalid refresh token")]
       ELSE LET g == generateAccessAndRefreshTokens(us, incoming.sub, t)
            IN [users |-> g.users,
                resp |-> [BaseResp("refresh") EXCEPT
                             !.status = 200, !.code = 200,
                             !.cookieAccess = g.accessToken,
                             !.cookieRefresh = g.refreshToken,
                             !.bodyAccess = g.accessToken,
                             !.bodyRefresh = g.refreshToken]]

refreshAccessToken(r, us, t) ==
    LET incomingRefreshToken == IncomingRefreshToken(r)
    IN IF incomingRefreshToken.kind # "none"
       THEN [users |-> us, resp |-> ApiError("refresh", 401, "Unauthorized request")]
       ELSE RefreshTry(incomingRefreshToken, us, t)

\* ---------------------------------------------------------- input domains
\* A registration request is a well-formed one (all four fields non-empty,
\* an avatar file whose upload succeeds, no cover image) with at most one
\* of its parts replaced.
GoodFiles == [def |-> TRUE, avatar |-> TRUE, coverImage |-> FALSE]

FilesSet ==
    {NoFiles} \cup
    {[def |-> TRUE, avatar |-> a, coverImage |-> c] : a \in BOOLEAN, c \in BOOLEAN}

GoodRegister ==
    {[op |-> "register", fullName |-> Str(<<"N">>), email |-> Str(e),
      username |-> Str(un), password |-> Str(<<"p">>), files |-> GoodFiles,
      avatarUploadOk |-> TRUE] : e \in {<<"e">>, <<"f">>}, un \in {<<"a">>, <<"A">>, <<"b">>}}

\* the well-formed requests whose parts are replaced
BaseRegister == {g \in GoodRegister : g.username.s # <<"A">> /\ g.email.s = <<"e">>}

\* a field left out of the body, and a field of white space only
Missing == {Undef, Str(<<" ">>)}

RegisterRequests ==
    GoodRegister
    \cup {[g EXCEPT !.fullName = m] : g \in BaseRegister, m \in Missing}
    \cup {[g EXCEPT !.email = m] : g \in BaseRegister, m \in Missing \cup {Str(<<>>)}}
    \cup {[g EXCEPT !.username = m] : g \in BaseRegister, m \in Missing}
    \cup {[g EXCEPT !.password = m] : g \in BaseRegister, m \in Missing}
    \cup {[g EXCEPT !.files = f] : g \in BaseRegister, f \in FilesSet}
    \cup {[g EXCEPT !.avatarUploadOk = FALSE] : g \in BaseRegister}

LoginRequests ==
    {[op |-> "login", username |-> un, email |-> e, password |-> Str(pw)] :
        un \in {Undef, Str(<<"a">>), Str(<<"b">>)},
        e \in {Undef, Str(<<>>), Str(<<"e">>)},
        pw \in {<<"p">>, <<"q">>}}

\* The tokens a client can hold: the pair handed out last to each user (its
\* refresh token is the stored one until a logout clears it), the pair
\* replaced or cleared last, and a forged token.
StoredTokens(us) ==
    {us[i].refreshToken : i \in 1..Len(us)} \ {NoToken, UndefinedToken}

RefreshTokensHeld == StoredTokens(users) \cup ({superseded} \ {NoToken})
AccessTokensHeld == {[p EXCEPT !.kind = "access"] : p \in RefreshTokensHeld}

\* the stored token that the handler replaced or cleared, if any
Superseded(us, us2, old) ==
    IF \E i \in 1..Len(us) :
          us[i].refreshToken # us2[i].refreshToken /\ us[i].refreshToken.kind = "refresh"
    THEN us[CHOOSE i \in 1..Len(us) :
               us[i].refreshToken # us2[i].refreshToken
               /\ us[i].refreshToken.kind = "refresh"].refreshToken
    ELSE old

\* a token in the cookie, in the body, or in both (a forged cookie)
RefreshRequests ==
    {[op |-> "refresh", cookieToken |-> c, bodyToken |-> NoToken] :
        c \in {NoToken, ForgedToken} \cup RefreshTokensHeld}
    \cup {[op |-> "refresh", cookieToken |-> c, bodyToken |-> b] :
        c \in {NoToken, ForgedToken}, b \in RefreshTokensHeld}

\* a token in the Authorization header, or in the accessToken cookie
LogoutRequests ==
    {[op |-> "logout", headerToken |-> h, cookieToken |-> NoToken] :
        h \in {NoToken, ForgedToken} \cup AccessTokensHeld}
    \cup {[op |-> "logout", headerToken |-> NoToken, cookieToken |-> c] :
        c \in AccessTokensHeld}

\* ---------------------------------------------------------------- actions
\* the requests the server has in flight at once
Procs == {1, 2}

\* no request in flight; existedUser is the handler's local of that name
\* (0 for null), presentedStored tells whether a refresh request presented
\* the valid token stored for its user when it arrived
CcIdle == [op |-> "none", pc |-> "idle", req |-> [op |-> "none"],
           existedUser |-> 0, presentedStored |-> FALSE,
           resp |-> BaseResp("none")]

\* no call of uploadOnCloudnary in progress
UpIdle == [pc |-> "idle", path |-> "", outcome |-> "none",
           result |-> [kind |-> "none", url |-> ""], threw |-> FALSE]

\* no call of the wrapper yet
AhIdle == [pc |-> "idle", kind |-> "none", err |-> "none", promise |-> "none",
           nextCalls |-> <<>>, escaped |-> "none"]

Init ==
    /\ users = <<>>
    /\ now = 0
    /\ superseded = NoToken
    /\ req = [op |-> "none"]
    /\ resp = BaseResp("none")
    /\ ah = [cur |-> AhIdle, finished |-> <<>>]
    /\ up = [cur |-> UpIdle, disk |-> {}, written |-> {}]
    /\ cc = [p \in Procs |-> CcIdle]

Register ==
    /\ Len(users) < MaxUsers
    /\ \E r \in RegisterRequests :
        LET out == registerUser(r, users)
        IN /\ users' = out.users
           /\ resp' = out.resp
           /\ req' = r
    /\ UNCHANGED <<now, superseded, ah, up, cc>>

Login ==
    /\ \E r \in LoginRequests :
        LET out == loginUser(r, users, now)
        IN /\ users' = out.users
           /\ resp' = out.resp
           /\ req' = r
           /\ superseded' = Superseded(users, out.users, superseded)
    /\ UNCHANGED <<now, ah, up, cc>>

Logout ==
    /\ \E r \in LogoutRequests, keyDropped \in BOOLEAN :
        LET out == logoutRoute(r, users, now, keyDropped)
        IN /\ users' = out.users
           /\ resp' = out.resp
           /\ req' = r
           /\ superseded' = Superseded(users, out.users, superseded)
    /\ UNCHANGED <<now, ah, up, cc>>

Refresh ==
    /\ \E r \in RefreshRequests :
        LET out == refreshAccessToken(r, users, now)
        IN /\ users' = out.users
           /\ resp' = out.resp
           /\ req' = r
           /\ superseded' = Superseded(users, out.users, superseded)
    /\ UNCHANGED <<now, ah, up, cc>>

Tick ==
    /\ now < MaxTime
    /\ now' = now + 1
    /\ UNCHANGED <<users, superseded, req, resp, ah, up, cc>>

Next == Register \/ Login \/ Logout \/ Refresh \/ Tick

Spec == Init /\ [][Next]_vars

\* ---------------------------------------------------------- asyncHandler
\* (req, res, next) => { Promise.resolve(fn(req, res, next)).catch(next) }
\* The handlers fn that can be wrapped: an async function returns a promise
\* whatever its body does (a throw before or after its first await rejects
\* the promise); a plain function returns a value or a promise, or throws
\* while the argument of Promise.resolve is being evaluated.
HandlerKinds ==
    {"asyncOk", "asyncThrow", "asyncAwaitOk", "asyncAwaitThrow",
     "plainOk", "plainReject", "plainThrow"}

Fails(kind) == kind \in {"asyncThrow", "asyncAwaitThrow", "plainReject", "plainThrow"}

\* the values thrown: an ApiError, a TypeError, a database error
ErrorValues == {"ApiError", "TypeError", "MongoServerError"}

\* the outer call: fn(req, res, next) is evaluated, then Promise.resolve
\* wraps what it returned and .catch(next) registers the reporter
asyncHandler(kind, err) ==
    CASE kind = "plainThrow" ->
           \* fn throws before Promise.resolve is entered: the exception
           \* leaves the wrapper, no promise exists, next is not registered
           [AhIdle EXCEPT !.pc = "returned", !.kind = kind, !.err = err,
                          !.escaped = err]
      [] kind \in {"asyncThrow", "plainReject"} ->
           [AhIdle EXCEPT !.pc = "registered", !.kind = kind, !.err = err,
                          !.promise = "rejected"]
      [] kind \in {"asyncOk", "plainOk"} ->
           [AhIdle EXCEPT !.pc = "registered", !.kind = kind, !.err = err,
                          !.promise = "fulfilled"]
      [] OTHER ->
           [AhIdle EXCEPT !.pc = "registered", !.kind = kind, !.err = err,
                          !.promise = "pending"]

\* a request arrives at a wrapped handler
AhCall ==
    /\ ah.cur.pc = "idle"
    /\ Len(ah.finished) < MaxCalls
    /\ \E kind \in HandlerKinds, err \in ErrorValues :
          ah' = [ah EXCEPT !.cur = asyncHandler(kind, IF Fails(kind) THEN err ELSE "none")]
    /\ UNCHANGED <<handlerVars, up, cc>>

\* the awaited operation of the handler completes and its promise settles
AhSettle ==
    /\ ah.cur.pc = "registered"
    /\ ah.cur.promise = "pending"
    /\ ah' = [ah EXCEPT !.cur.promise =
                   IF Fails(ah.cur.kind) THEN "rejected" ELSE "fulfilled"]
    /\ UNCHANGED <<handlerVars, up, cc>>

\* the reaction registered by .catch(next) runs: next(err) on rejection
AhCatch ==
    /\ ah.cur.pc = "registered"
    /\ ah.cur.promise \in {"rejected", "fulfilled"}
    /\ ah' = [ah EXCEPT !.cur.pc = "returned",
                        !.cur.nextCalls =
                            IF ah.cur.promise = "rejected"
                            THEN Append(ah.cur.nextCalls, ah.cur.err)
                            ELSE ah.cur.nextCalls]
    /\ UNCHANGED <<handlerVars, up, cc>>

\* the call is over; the server takes the next request
AhDone ==
    /\ ah.cur.pc = "returned"
    /\ ah' = [cur |-> AhIdle, finished |-> Append(ah.finished, ah.cur)]
    /\ UNCHANGED <<handlerVars, up, cc>>

NextAsync == AhCall \/ AhSettle \/ AhCatch \/ AhDone

SpecAsync == Init /\ [][NextAsync]_vars

\* C11: for every call of a wrapped handler that is over, a handler that
\* failed (by throwing or by returning a promise that rejected) had its error
\* passed to next exactly once, as the value it failed with, and nothing
\* escaped the wrapper as an exception; a handler that succeeded caused no
\* call of next.
C11_FailureForwardedOnce ==
    \A i \in 1..Len(ah.finished) :
        LET c == ah.finished[i]
        IN /\ c.escaped = "none"
           /\ c.nextCalls = IF Fails(c.kind) THEN <<c.err>> ELSE <<>>

\* ----------------------------------------------------- uploadOnCloudnary
\* the temporary files the upload middleware writes for a request
TempFiles == {"avatar-1", "avatar-2", "cover-1", "cover-2"}

\* what cloudinary.uploader.upload does: its promise fulfils, its promise
\* rejects, or the call itself throws
UploadOutcomes == {"ok", "rejected", "threw"}

\* fs.unlinkSync(path): removes the file; throws when there is none
unlinkSync(disk, path) == [disk |-> disk \ {path}, threw |-> path \notin disk]

\* the body after the upload, with the unlink of the try block left out:
\* the file is removed only when the catch block runs
UploadSettledKeepingFile(disk, path, outcome) ==
    IF outcome = "threw"
    THEN [disk |-> unlinkSync(disk, path).disk,
          result |-> [kind |-> "null", url |-> ""],
          threw |-> unlinkSync(disk, path).threw]
    ELSE [disk |-> disk,
          result |-> IF outcome = "ok"
                     THEN [kind |-> "response", url |-> path]
                     ELSE [kind |-> "undefined", url |-> ""],
          threw |-> FALSE]

\* lines 16-39 once the upload is over: .catch(console.log) turns a rejected
\* upload into an undefined response; the try block unlinks and returns the
\* response; the catch block unlinks and returns null, and an exception of
\* its unlink leaves the function
UploadSettled(disk, path, outcome) ==
    LET inTry == unlinkSync(disk, path)
        thrown == outcome = "threw" \/ inTry.threw
        inCatch == unlinkSync(IF outcome = "threw" THEN disk ELSE inTry.disk, path)
    IN IF thrown
       THEN [disk |-> inCatch.disk,
             result |-> [kind |-> "null", url |-> ""],
             threw |-> inCatch.threw]
       ELSE [disk |-> inTry.disk,
             result |-> IF outcome = "ok"
                        THEN [kind |-> "response", url |-> path]
                        ELSE [kind |-> "undefined", url |-> ""],
             threw |-> FALSE]

\* the upload middleware stores a file of the request on the local disk,
\* under a name it has not used before
UpReceive ==
    /\ \E f \in TempFiles \ up.written :
          up' = [up EXCEPT !.disk = up.disk \cup {f}, !.written = up.written \cup {f}]
    /\ UNCHANGED <<handlerVars, ah, cc>>

\* uploadOnCloudnary(localFilePath) is called with the path of a stored file
\* or with no path: if (!localFilePath) return null
UpCall ==
    /\ up.cur.pc = "idle"
    /\ \E path \in up.disk \cup {""} :
          up' = [up EXCEPT !.cur =
                    IF path = ""
                    THEN [UpIdle EXCEPT !.pc = "returned",
                                        !.result = [kind |-> "null", url |-> ""]]
                    ELSE [UpIdle EXCEPT !.pc = "uploading", !.path = path]]
    /\ UNCHANGED <<handlerVars, ah, cc>>

\* the upload is over and the function runs to its return
UpSettle ==
    /\ up.cur.pc = "uploading"
    /\ \E outcome \in UploadOutcomes :
          LET out == UploadSettled(up.disk, up.cur.path, outcome)
          IN up' = [cur |-> [up.cur EXCEPT !.pc = "returned", !.outcome = outcome,
                                           !.result = out.result, !.threw = out.threw],
                    disk |-> out.disk,
                    written |-> up.written]
    /\ UNCHANGED <<handlerVars, ah, cc>>

\* the caller has the result
UpReturn ==
    /\ up.cur.pc = "returned"
    /\ up' = [up EXCEPT !.cur = UpIdle]
    /\ UNCHANGED <<handlerVars, ah, cc>>

NextUpload == UpReceive \/ UpCall \/ UpSettle \/ UpReturn

SpecUpload == Init /\ [][NextUpload]_vars

\* C13: when a call of uploadOnCloudnary with a non-empty path has returned,
\* the local file of that path is gone, whether the upload succeeded or
\* failed; the result is the upload response on success and no result
\* (undefined or null) on failure; and the call did not throw.
C13_TempFileRemoved ==
    (up.cur.pc = "returned" /\ up.cur.path # "")
      => /\ up.cur.path \notin up.disk
         /\ ~up.cur.threw
         /\ up.cur.outcome = "ok"
               => up.cur.result = [kind |-> "response", url |-> up.cur.path]
         /\ up.cur.outcome # "ok"
               => up.cur.result.kind \in {"undefined", "null"}

\* a call returned after its upload was rejected, while another temporary
\* file is still on the disk
C13_Witness ==
    /\ up.cur.pc = "returned"
    /\ up.cur.path # ""
    /\ up.cur.outcome = "rejected"
    /\ up.disk # {}

\* ------------------------------------------------- handlers interleaving
\* Each request runs its handler from one await to the next; between two
\* awaits of one request the other request may run.
ConcRegisterRequests ==
    {g \in GoodRegister :
        <<g.username.s, g.email.s>>
          \in {<<<<"a">>, <<"e">>>>, <<<<"A">>, <<"f">>>>, <<<<"b">>, <<"e">>>>}}

ConcRefreshRequests ==
    {[op |-> "refresh", cookieToken |-> c, bodyToken |-> NoToken] :
        c \in {NoToken} \cup StoredTokens(users)}

InFlight(op) == {p \in Procs : cc[p].op = op /\ cc[p].pc \notin {"idle", "done"}}

\* registerUser up to its first await: lines 38-52
ConcRegisterStart(p) ==
    /\ cc[p].pc \in {"idle", "done"}
    /\ Len(users) + Cardinality(InFlight("register")) < MaxUsers
    /\ \E r \in ConcRegisterRequests :
          cc' = [cc EXCEPT ![p] =
                    IF SomeFieldEmpty(r)
                    THEN [CcIdle EXCEPT !.op = "register", !.pc = "done", !.req = r,
                            !.resp = ApiError("register", 400, "All fields are required")]
                    ELSE [CcIdle EXCEPT !.op = "register", !.pc = "findOne", !.req = r]]
    /\ UNCHANGED <<handlerVars, ah, up>>

\* refreshAccessToken up to its first await: lines 183-192. jwt.verify is
\* synchronous; a throw of it is caught at 218 and answered 401
ConcRefreshStart(p) ==
    /\ cc[p].pc \in {"idle", "done"}
    /\ \E r \in ConcRefreshRequests :
          LET incoming == IncomingRefreshToken(r)
              started == [CcIdle EXCEPT
                            !.op = "refresh", !.req = r,
                            !.presentedStored =
                                /\ JwtVerify(incoming, "refresh", RefreshTTL, now)
                                /\ HasId(users, incoming.sub)
                                /\ users[incoming.sub].refreshToken = incoming]
          IN cc' = [cc EXCEPT ![p] =
                      IF incoming.kind # "none"
                      THEN [started EXCEPT !.pc = "done",
                              !.resp = ApiError("refresh", 401, "Unauthorized request")]
                      ELSE IF ~JwtVerify(incoming, "refresh", RefreshTTL, now)
                      THEN [started EXCEPT !.pc = "done",
                              !.resp = ApiError("refresh", 401, "jwt error")]
                      ELSE [started EXCEPT !.pc = "findById"]]
    /\ UNCHANGED <<handlerVars, ah, up>>

\* the awaited operation of request p completes and its handler runs to
\* its next await or to its response
ConcStep(p) ==
    /\ cc[p].pc \notin {"idle", "done"}
    /\ LET c == cc[p]
           r == c.req
       IN CASE c.pc = "findOne" ->
                 \* lines 52-58: existedUser = await User.findOne(...)
                 LET existedUser == FindOneIdx(users, r.username, r.email)
                 IN /\ cc' = [cc EXCEPT ![p] =
                              IF existedUser # 0
                              THEN [c EXCEPT !.pc = "done", !.existedUser = existedUser,
                                             !.resp = UserExists("register")]
                              ELSE [c EXCEPT !.pc = "create"]]
                    /\ users' = users
            [] c.pc = "create" ->
                 \* lines 60-99: uploads, User.create, response
                 LET out == registerAfterLookup(r, users)
                 IN /\ cc' = [cc EXCEPT ![p] = [c EXCEPT !.pc = "done", !.resp = out.resp]]
                    /\ users' = out.users
            [] c.pc = "findById" ->
                 \* lines 192-200: the record is read and compared
                 LET incoming == IncomingRefreshToken(r)
                 IN /\ cc' = [cc EXCEPT ![p] =
                              IF ~HasId(users, incoming.sub)
                              THEN [c EXCEPT !.pc = "done",
                                     !.resp = ApiError("refresh", 401, "Invalid refresh token")]
                              ELSE IF incoming # users[incoming.sub].refreshToken
                              THEN [c EXCEPT !.pc = "done",
                                     !.resp = ApiError("refresh", 401,
                                                       "Refresh token is expired or used")]
                              ELSE [c EXCEPT !.pc = "generate"]]
                    /\ users' = users
            [] OTHER ->
                 \* lines 207-217: the pair is minted and saved; the response
                 \* carries the access token and an undefined newrefreshToken
                 LET g == generateAccessAndRefreshTokens(
                              users, IncomingRefreshToken(r).sub, now)
                 IN /\ cc' = [cc EXCEPT ![p] =
                              [c EXCEPT !.pc = "done",
                                 !.resp = IF g.ok
                                          THEN [BaseResp("refresh") EXCEPT
                                                  !.status = 200, !.code = 200,
                                                  !.msg = "Access token refreshed",
                                                  !.cookieAccess = g.accessToken,
                                                  !.cookieRefresh = UndefinedToken,
                                                  !.bodyAccess = g.accessToken,
                                                  !.bodyRefresh = UndefinedToken]
                                          ELSE ApiError("refresh", 401,
                                                        GenerateFailed("refresh").msg)]]
                    /\ users' = g.users
    /\ UNCHANGED <<now, superseded, req, resp, ah, up>>

\* a login with the right password that no other request interleaves with
ConcLogin ==
    /\ \E i \in 1..Len(users) :
          users' = loginUser([op |-> "login", username |-> users[i].username,
                              email |-> Undef, password |-> Str(<<"p">>)],
                             users, now).users
    /\ UNCHANGED <<now, superseded, req, resp, ah, up, cc>>

NextConc ==
    \/ \E p \in Procs : ConcRegisterStart(p)
    \/ \E p \in Procs : ConcRefreshStart(p)
    \/ \E p \in Procs : ConcStep(p)
    \/ ConcLogin
    \/ Tick

SpecConc == Init /\ [][NextConc]_vars

\* the two requests are over and each passed the lookup of line 52
BothCreated(p, q) ==
    /\ p # q
    /\ cc[p].op = "register" /\ cc[p].pc = "done" /\ cc[p].existedUser = 0
    /\ cc[q].op = "register" /\ cc[q].pc = "done" /\ cc[q].existedUser = 0

SameIdentity(r1, r2) ==
    r1.email = r2.email \/ ToLowerCase(r1.username.s) = ToLowerCase(r2.username.s)

\* C14: when two registrations for the same email or the same username have
\* both passed the existence lookup before either created its record, and
\* both are over, exactly one of them was answered 201 and has its record
\* in the store, and the other was answered with the Conflict error 409.
C14_ConcurrentRegistrationConflict ==
    \A p, q \in Procs :
        (BothCreated(p, q) /\ SameIdentity(cc[p].req, cc[q].req))
          => \/ /\ cc[p].resp.status = 201
                /\ cc[q].resp.status = 409 /\ cc[q].resp.apiError
             \/ /\ cc[q].resp.status = 201
                /\ cc[p].resp.status = 409 /\ cc[p].resp.apiError

\* C15: when two refresh requests that presented the same refresh token,
\* valid and stored for its user when each arrived, are both over, both were
\* answered 200 with a new refresh token, the stored token is one of the two
\* handed out, and exactly one of the two handed out equals the stored one.
C15_ConcurrentRefreshLastWriteWins ==
    \A p, q \in Procs :
        (/\ p # q
         /\ cc[p].op = "refresh" /\ cc[p].pc = "done" /\ cc[p].presentedStored
         /\ cc[q].op = "refresh" /\ cc[q].pc = "done" /\ cc[q].presentedStored
         /\ IncomingRefreshToken(cc[p].req) = IncomingRefreshToken(cc[q].req))
          => LET stored == users[IncomingRefreshToken(cc[p].req).sub].refreshToken
             IN /\ cc[p].resp.status = 200
                /\ cc[q].resp.status = 200
                /\ (cc[p].resp.bodyRefresh = stored) # (cc[q].resp.bodyRefresh = stored)

\* ------------------------------------------------- database operations fail
\* The awaited database operations of a handler can fail. The operation that
\* persists (User.create, user.save) may reject; the query that reads the
\* record back after it (User.findById of lines 89 and 130) may reject or
\* return null.
DbFaults == {"none", "write", "readBackNull", "readBackRejects"}

\* registerUser, lines 80-99, when the database fails
registerUserDb(r, us, fault) ==
    LET out == registerUser(r, us)
    IN IF out.resp.status # 201 THEN out
       ELSE CASE fault = "write" ->
                   \* User.create rejects: the raw error is forwarded
                   [users |-> us, resp |-> Unstructured("register", "MongoNetworkError")]
              [] fault = "readBackNull" ->
                   \* if (!createdUser) throw new ApiError(500, ...)
                   [users |-> out.users,
                    resp |-> ApiError("register", 500,
                                      "Something went wrong while registration")]
              [] fault = "readBackRejects" ->
                   [users |-> out.users,
                    resp |-> Unstructured("register", "MongoNetworkError")]
              [] OTHER -> out

\* loginUser, lines 130-153, when the database fails: a rejected save is
\* caught in generateAccessAndRefreshTokens (lines 20-22); loggedInUser is
\* not tested for null
loginUserDb(r, us, t, fault) ==
    LET out == loginUser(r, us, t)
    IN IF out.resp.status # 200 THEN out
       ELSE CASE fault = "write" ->
                   [users |-> us, resp |-> GenerateFailed("login")]
              [] fault = "readBackNull" ->
                   [users |-> out.users, resp |-> [out.resp EXCEPT !.data = NoData]]
              [] fault = "readBackRejects" ->
                   [users |-> out.users,
                    resp |-> Unstructured("login", "MongoNetworkError")]
              [] OTHER -> out

\* refreshAccessToken when the database fails: the failure of the save
\* becomes ApiError 500 in the helper and ApiError 401 in the catch of line
\* 218; no query follows the save
refreshAccessTokenDb(r, us, t, fault) ==
    LET out == refreshAccessToken(r, us, t)
    IN IF out.resp.status = 200 /\ fault = "write"
       THEN [users |-> us,
             resp |-> ApiError("refresh", 401, GenerateFailed("refresh").msg)]
       ELSE out

DbRegister ==
    /\ Len(users) < MaxUsers
    /\ \E r \in RegisterRequests, fault \in DbFaults :
        LET out == registerUserDb(r, users, fault)
        IN /\ users' = out.users
           /\ resp' = out.resp
           /\ req' = [op |-> "register", request |-> r, dbFault |-> fault]
    /\ UNCHANGED <<now, superseded, ah, up, cc>>

DbLogin ==
    /\ \E r \in LoginRequests, fault \in DbFaults :
        LET out == loginUserDb(r, users, now, fault)
        IN /\ users' = out.users
           /\ resp' = out.resp
           /\ req' = [op |-> "login", request |-> r, dbFault |-> fault]
           /\ superseded' = Superseded(users, out.users, superseded)
    /\ UNCHANGED <<now, ah, up, cc>>

DbRefresh ==
    /\ \E r \in RefreshRequests, fault \in DbFaults :
        LET out == refreshAccessTokenDb(r, users, now, fault)
        IN /\ users' = out.users
           /\ resp' = out.resp
           /\ req' = [op |-> "refresh", request |-> r, dbFault |-> fault]
           /\ superseded' = Superseded(users, out.users, superseded)
    /\ UNCHANGED <<now, ah, up, cc>>

NextDb == DbRegister \/ DbLogin \/ DbRefresh \/ Tick

SpecDb == Init /\ [][NextDb]_vars

\* ------------------------------------------------------------- the steps
\* A step of Next that handled a request of the kind named (Tick is the
\* only step that moves the clock and handles none).
RegisterStep == req'.op = "register" /\ now' = now
LoginStep == req'.op = "login" /\ now' = now
LogoutStep == req'.op = "logout" /\ now' = now
RefreshStep == req'.op = "refresh" /\ now' = now

NoTokensIn(rsp) ==
    /\ rsp.cookieAccess = NoToken
    /\ rsp.cookieRefresh = NoToken
    /\ rsp.bodyAccess = NoToken
    /\ rsp.bodyRefresh = NoToken

\* the presented refresh token is validly signed, unexpired and names a user
ValidRefreshToken(tok, us, t) ==
    /\ tok.kind = "refresh"
    /\ t < tok.iat + RefreshTTL
    /\ tok.sub \in 1..Len(us)

\* --------------------------------------------------------------- claims
\* C1: a refresh request presenting (cookie or body) a validly signed,
\* unexpired refresh token equal to the one stored on its user answers 200,
\* stores a new refresh token on the record and returns the same new pair in
\* the cookies and in the body, the refresh token returned being the stored
\* one.
C1_RefreshRotatesStoredToken ==
    [][(RefreshStep
        /\ ValidRefreshToken(IncomingRefreshToken(req'), users, now)
        /\ users[IncomingRefreshToken(req').sub].refreshToken = IncomingRefreshToken(req'))
       => (/\ resp'.status = 200
           /\ resp'.cookieAccess.kind = "access"
           /\ resp'.cookieRefresh.kind = "refresh"
           /\ resp'.bodyAccess = resp'.cookieAccess
           /\ resp'.bodyRefresh = resp'.cookieRefresh
           /\ users'[IncomingRefreshToken(req').sub].refreshToken = resp'.bodyRefresh)]_vars

\* C2: a refresh request presenting a validly signed, unexpired refresh token
\* that is not the one stored on its user is answered 401 and changes no
\* record; and in every state at most one refresh token per user would be
\* accepted.
AcceptedRefreshTokens(us, t) ==
    {tok \in [kind : {"refresh"}, sub : 1..Len(us), iat : 0..t] :
        refreshAccessToken([op |-> "refresh", cookieToken |-> tok, bodyToken |-> NoToken],
                           us, t).resp.status = 200}

C2_SupersededRefreshRejected ==
    [][/\ (RefreshStep
           /\ ValidRefreshToken(IncomingRefreshToken(req'), users, now)
           /\ users[IncomingRefreshToken(req').sub].refreshToken # IncomingRefreshToken(req'))
          => (resp'.status = 401 /\ resp'.apiError /\ users' = users)
       /\ \A a, b \in AcceptedRefreshTokens(users, now) : a.sub = b.sub => a = b]_vars

\* a refresh with the token that a later login replaced was answered 401
C2_Witness ==
    /\ req.op = "refresh"
    /\ resp.status = 401
    /\ ValidRefreshToken(IncomingRefreshToken(req), users, now)
    /\ IncomingRefreshToken(req) = superseded
    /\ users[superseded.sub].refreshToken.kind = "refresh"
    /\ users[superseded.sub].refreshToken # superseded

\* C3: after logoutUser has answered an authenticated principal, no refresh
\* token is stored on that user's record and both cookies are cleared.
C3_LogoutClearsStoredToken ==
    [][(LogoutStep /\ resp'.status = 200)
       => (/\ users'[req'.headerToken.sub].refreshToken = NoToken
           /\ resp'.cookiesCleared)]_vars

\* C4: a login whose username or email finds a record and whose password
\* matches the stored hash answers 200 with the same access and refresh token
\* in the cookies and in the body, both with the id of the record found as
\* subject, and the refresh token returned is the one stored on that record.
C4_LoginIssuesAndStoresPair ==
    [][(LoginStep
        /\ (Truthy(req'.username) \/ Truthy(req'.email))
        /\ FindOneIdx(users, req'.username, req'.email) # 0
        /\ Hash(req'.password.s)
             = users[FindOneIdx(users, req'.username, req'.email)].password)
       => LET i == FindOneIdx(users, req'.username, req'.email)
          IN /\ resp'.status = 200
             /\ resp'.cookieAccess.kind = "access"
             /\ resp'.cookieRefresh.kind = "refresh"
             /\ resp'.bodyAccess = resp'.cookieAccess
             /\ resp'.bodyRefresh = resp'.cookieRefresh
             /\ resp'.bodyAccess.sub = users[i]._id
             /\ resp'.bodyRefresh.sub = users[i]._id
             /\ users'[i].refreshToken = resp'.bodyRefresh]_vars

\* a login answered 200 and its refresh token is on the record
C4_Witness ==
    /\ req.op = "login"
    /\ resp.status = 200
    /\ resp.bodyRefresh.kind = "refresh"
    /\ users[resp.bodyRefresh.sub].refreshToken = resp.cookieRefresh

\* C5: a login that finds a record but whose password does not match the
\* stored hash answers 401, sets no cookie, returns no token and changes no
\* record (a refresh token stored before stays the stored one).
C5_WrongPasswordRejected ==
    [][(LoginStep
        /\ (Truthy(req'.username) \/ Truthy(req'.email))
        /\ FindOneIdx(users, req'.username, req'.email) # 0
        /\ Hash(req'.password.s)
             # users[FindOneIdx(users, req'.username, req'.email)].password)
       => (/\ resp'.status = 401
           /\ resp'.apiError
           /\ NoTokensIn(resp')
           /\ users' = users)]_vars

\* a login with a wrong password was answered 401 for a user whose record
\* holds a refresh token from an earlier login
C5_Witness ==
    /\ req.op = "login"
    /\ resp.status = 401
    /\ FindOneIdx(users, req.username, req.email) # 0
    /\ Hash(req.password.s) # users[FindOneIdx(users, req.username, req.email)].password
    /\ users[FindOneIdx(users, req.username, req.email)].refreshToken.kind = "refresh"

\* C6: the guard ends in exactly one of three outcomes: no token in the
\* Authorization header or the cookie: 401 and the handler does not run; a
\* token that fails verification: 403 and the handler does not run; a valid
\* token: the handler runs for the principal of the token.
PresentedAccessToken(r) ==
    IF r.headerToken.kind # "none" THEN r.headerToken ELSE r.cookieToken

C6_GuardThreeOutcomes ==
    [][LogoutStep
       => LET tok == PresentedAccessToken(req')
          IN /\ tok.kind = "none" => resp'.status = 401 /\ users' = users
             /\ (tok.kind # "none" /\ ~JwtVerify(tok, "access", AccessTTL, now))
                  => resp'.status = 403 /\ users' = users
             /\ JwtVerify(tok, "access", AccessTTL, now)
                  => resp'.status = 200 /\ resp'.msg = "User logged out"]_vars

\* C7: a registration request in which one of fullName, email, username,
\* password is absent or empty after trimming fails with a 400 validation
\* error and persists no record.
FieldMissing(f) == ~f.def \/ Trim(f.s) = <<>>

AllFieldsGiven(r) == \A i \in 1..4 : ~FieldMissing(FieldsOf(r)[i])

C7_MissingFieldRejected ==
    [][(RegisterStep /\ ~AllFieldsGiven(req'))
       => (resp'.status = 400 /\ resp'.apiError /\ users' = users)]_vars

\* C8: once a user is registered, a later registration (all fields given)
\* whose email is that of the record, or whose username is that of the record
\* up to letter case, fails with 409 and creates no second record.
TakenBy(us, r) ==
    \E i \in 1..Len(us) :
        \/ us[i].email = r.email
        \/ us[i].username.s = ToLowerCase(r.username.s)

C8_DuplicateRejected ==
    [][(RegisterStep /\ AllFieldsGiven(req') /\ TakenBy(users, req'))
       => (resp'.status = 409 /\ resp'.apiError /\ users' = users)]_vars

\* C9: a registration with all fields given and no user of that username or
\* email, without an avatar file or with an avatar whose upload returns
\* nothing, fails with 400 and persists no record.
AvatarUploaded(r) == r.files.def /\ r.files.avatar

C9_AvatarRequired ==
    [][(RegisterStep /\ AllFieldsGiven(req') /\ ~TakenBy(users, req')
        /\ (~AvatarUploaded(req') \/ ~req'.avatarUploadOk))
       => (resp'.status = 400 /\ resp'.apiError /\ users' = users)]_vars

\* C10: a registration with all fields given, a fresh username and email and
\* an avatar whose upload succeeds answers 201, adds exactly one record (the
\* username lower-cased, the avatar the uploaded URL) and returns that record
\* without its password and refreshToken fields.
C10_RegistrationCreatesUser ==
    [][(RegisterStep /\ AllFieldsGiven(req') /\ ~TakenBy(users, req')
        /\ AvatarUploaded(req') /\ req'.avatarUploadOk)
       => (/\ resp'.status = 201
           /\ Len(users') = Len(users) + 1
           /\ SubSeq(users', 1, Len(users)) = users
           /\ users'[Len(users')].username = Str(ToLowerCase(req'.username.s))
           /\ users'[Len(users')].email = req'.email
           /\ users'[Len(users')].avatar = "avatar-url"
           /\ resp'.data = Sanitize(users'[Len(users')])
           /\ "password" \notin DOMAIN resp'.data
           /\ "refreshToken" \notin DOMAIN resp'.data)]_vars

\* C12: every failure that reaches the error reporter from register, login,
\* logout or refresh is a structured error with a status among 400, 401, 403,
\* 404, 409, 500; a failure that is no validation, lookup or credential
\* failure (an exception while reading the uploaded files, a database
\* error) reaches it as the structured Internal error with status 500.
C12_FailuresAreStructured ==
    resp.status >= 400
      => (resp.apiError /\ resp.status \in {400, 401, 403, 404, 409, 500})

\* C16: a refresh request with no token in the cookie and none in the body is
\* answered 401, issues no token and changes no record; and a request is not
\* turned away for carrying a token: the one presenting the stored, valid
\* token is not answered "Unauthorized request".
C16_RefreshRejectsOnlyAbsentToken ==
    [][RefreshStep
       => /\ IncomingRefreshToken(req').kind = "none"
               => (resp'.status = 401 /\ NoTokensIn(resp') /\ users' = users)
          /\ (/\ ValidRefreshToken(IncomingRefreshToken(req'), users, now)
              /\ users[IncomingRefreshToken(req').sub].refreshToken
                   = IncomingRefreshToken(req'))
               => ~(resp'.status = 401 /\ resp'.msg = "Unauthorized request")]_vars

\* C17: an otherwise valid registration answers 201 and creates one record
\* whether a cover image file is uploaded or not; the record's coverImage is
\* the uploaded URL when there is a file and the empty string when not.
C17_CoverImageOptional ==
    [][(RegisterStep /\ AllFieldsGiven(req') /\ ~TakenBy(users, req')
        /\ AvatarUploaded(req') /\ req'.avatarUploadOk)
       => (/\ resp'.status = 201
           /\ Len(users') = Len(users) + 1
           /\ users'[Len(users')].coverImage
                = IF req'.files.coverImage THEN "cover-url" ELSE "")]_vars

\* C18: a login with neither username nor email is answered 400, and a login
\* whose username and email match no record is answered 404; either way no
\* token is returned, no cookie is set and no record changes.
NoRecordMatches(us, r) ==
    \A i \in 1..Len(us) : us[i].username # r.username /\ us[i].email # r.email

C18_LoginWithoutIdentifierOrRecord ==
    [][LoginStep
       => /\ (~Truthy(req'.username) /\ ~Truthy(req'.email))
               => (resp'.status = 400 /\ resp'.apiError
                   /\ NoTokensIn(resp') /\ users' = users)
          /\ ((Truthy(req'.username) \/ Truthy(req'.email))
              /\ NoRecordMatches(users, req'))
               => (resp'.status = 404 /\ resp'.apiError
                   /\ NoTokensIn(resp') /\ users' = users)]_vars

\* a login naming an unknown user was answered 404 while a registered user
\* holds a stored refresh token
C18_Witness ==
    /\ req.op = "login"
    /\ resp.status = 404
    /\ Truthy(req.username)
    /\ NoRecordMatches(users, req)
    /\ \E i \in 1..Len(users) : users[i].refreshToken.kind = "refresh"

PassesGuard(tok, t) ==
    authMiddleware([op |-> "logout", headerToken |-> tok, cookieToken |-> NoToken], t).pass

AccessTokens(us, t) == [kind : {"access"}, sub : 1..Len(us), iat : 0..t]

C20_AccessTokenStateless ==
    [][/\ (LogoutStep /\ JwtVerify(req'.headerToken, "access", AccessTTL, now))
             => resp'.status = 200
       /\ now' = now
             => \A tok \in AccessTokens(users, now) :
                   PassesGuard(tok, now) => PassesGuard(tok, now')]_vars

\* a request carrying an unexpired access token was accepted although a
\* later login had replaced the refresh token of its pair on the record
C20_Witness ==
    /\ req.op = "logout"
    /\ resp.status = 200
    /\ JwtVerify(req.headerToken, "access", AccessTTL, now)
    /\ users[req.headerToken.sub].refreshToken.kind = "refresh"
    /\ users[req.headerToken.sub].refreshToken.iat # req.headerToken.iat

\* C22: in every success response of register, login, logout and refresh
\* the status code inside the envelope (the first argument of ApiResponce)
\* equals the HTTP status of the response (the argument of res.status).
C22_EnvelopeCodeIsHttpStatus ==
    (resp.op \in {"register", "login", "logout", "refresh"}
     /\ resp.status \in 200..299)
      => resp.code = resp.status

\* C21: a register, login or refresh request that is answered with an error
\* leaves the user store as it was: no record is created and no stored
\* refresh token is set, replaced or cleared.
C21_ErrorsLeaveStoreUnchanged ==
    [][((RegisterStep \/ LoginStep \/ RefreshStep) /\ resp'.status >= 400)
       => users' = users]_vars
====
